---- MODULE Spec2Model ----
(***************************************************************************)
(* Model of process_tennis_web_data.py: the pipeline that turns match,     *)
(* player and Grand Slam final records into the multi-relation connection  *)
(* graph of the Tennis Web game, selects the most connected players and    *)
(* persists the bounded document.                                          *)
(*                                                                         *)
(* Representation                                                          *)
(*   a match row        [winner_id, loser_id, tourney_name, year]; a       *)
(*                      missing id (NaN) is NA, a missing name is "", a    *)
(*                      missing year is 0                                  *)
(*   players_data       the dict in iteration (insertion) order: a         *)
(*                      sequence of [id, data] with distinct ids           *)
(*   a player's data    has_name says whether the key 'name' is present;   *)
(*                      country, hand: "" when missing in the JSON file,   *)
(*                      NaN when the cell of the CSV file is empty;        *)
(*                      height, birth_year, titles: <<>> when missing,     *)
(*                      <<n>> otherwise                                    *)
(*   a JSON value       null is <<>>, the number n is <<n>>                *)
(*   a dict             a function whose DOMAIN is the key set             *)
(*   a set, or a list   a set (the order of list(set) is unspecified)      *)
(*   made from a set                                                       *)
(*   a list built by    a sequence                                         *)
(*   append                                                                *)
(* A match's surface, round and score and a player's name text are copied  *)
(* through by the source and are left out.                                 *)
(***************************************************************************)
EXTENDS Integers, Sequences, FiniteSets, TLC

\* ------------------------------------------------------------- bounds
\* The longest match stream a run loads.
MaxMatches == 2
\* The largest min_connections a caller passes (the source passes 8 and 10).
MaxThreshold == 2
\* The largest candidate count main keeps (the source keeps 800).
MaxTop == 2
\* The largest number of match details persisted per player (the source
\* keeps 50).
MatchCap == 2
\* The longest match stream made of the records of the worked example.
ExampleLen == 3
MaxFiles == 2

\* pd.notna(id) is false for NA.
NA == 0

\* The player ids of the records.
PlayerIds == {1, 2, 3}

Min(a, b) == IF a < b THEN a ELSE b

Range(s) == {s[i] : i \in DOMAIN s}

\* The empty dict.
EmptyDict == <<>>

\* dict.get(k, default)
Get(d, k, default) == IF k \in DOMAIN d THEN d[k] ELSE default

\* d[k] = v
Put(d, k, v) == [x \in (DOMAIN d) \cup {k} |-> IF x = k THEN v ELSE d[x]]

\* ------------------------------------------------------------ str(id)
Digit == <<"0", "1", "2", "3", "4", "5", "6", "7", "8", "9">>

RECURSIVE Str(_)
Str(n) == IF n < 10 THEN Digit[n + 1] ELSE Str(n \div 10) \o Digit[(n % 10) + 1]

\* ------------------------------------------------------------- loaders
\* A match file is [year, readable, rows]: year is <<y>> for the first run of
\* four digits in the file's name, <<>> when the name has none; readable says
\* whether pd.read_csv succeeds; each row is [winner_id, loser_id, tourney_name].

\* df['year'] = year
WithYear(file) ==
    [i \in 1..Len(file.rows) |->
        [winner_id    |-> file.rows[i].winner_id,
         loser_id     |-> file.rows[i].loser_id,
         tourney_name |-> file.rows[i].tourney_name,
         year         |-> file.year[1]]]

\* What one iteration of the loop over sorted(match_files) appends.
LoadedRows(file) ==
    IF file.year[1] >= 1990 /\ file.readable THEN WithYear(file) ELSE <<>>

RECURSIVE ConcatFiles(_, _)
ConcatFiles(files, n) ==
    IF n = 0 THEN <<>> ELSE ConcatFiles(files, n - 1) \o LoadedRows(files[n])

\* re.search(r'(\d{4})', file) is None for a file of the list: .group(1)
\* raises, outside the try.
NoYearInName(files) == \E i \in 1..Len(files) : files[i].year = <<>>

\* pd.concat(all_matches), or the empty DataFrame.
load_all_match_data(files) == ConcatFiles(files, Len(files))

\* tennis_players_data.json is [readable, records]; a record is
\* [id, complete, country, hand, height, titles], complete saying whether the
\* keys 'name', 'country' and 'hand' are all there.
\* atp_players.csv is [readable, has_dob, rows]; has_dob says whether the file
\* has the column 'dob'; a row is [player_id, birth_year, ioc, hand, height],
\* birth_year being <<y>> for a dob of eight digits and <<>> otherwise.

\* players_data[player_id] = {}
EmptyRecord ==
    [has_name |-> FALSE, country |-> "", hand |-> "",
     height |-> <<>>, birth_year |-> <<>>, titles |-> <<>>]

\* The records the JSON loop stores before a KeyError ends it.
JsonPrefix(records) ==
    LET bad == {i \in 1..Len(records) : ~records[i].complete}
        n == IF bad = {} THEN Len(records)
             ELSE (CHOOSE i \in bad : \A j \in bad : i <= j) - 1
    IN  SubSeq(records, 1, n)

\* players_data after the first try block.
FromJson(json) ==
    IF ~json.readable THEN <<>>
    ELSE [i \in 1..Len(JsonPrefix(json.records)) |->
            LET player == json.records[i]
            IN  [id |-> player.id,
                 data |-> [has_name   |-> TRUE,
                           country    |-> player.country,
                           hand       |-> player.hand,
                           height     |-> player.height,
                           birth_year |-> <<>>,
                           titles     |-> IF player.titles = <<>> THEN <<0>>
                                          ELSE player.titles]]]

\* Whether players_data has the key.
HasPlayer(players, player_id) == \E i \in 1..Len(players) : players[i].id = player_id

\* One full iteration of the loop over atp_players.iterrows().
CsvStep(players, row) ==
    IF HasPlayer(players, row.player_id)
    THEN [i \in 1..Len(players) |->
            IF players[i].id = row.player_id /\ row.birth_year # <<>>
            THEN [players[i] EXCEPT !.data.birth_year = row.birth_year]
            ELSE players[i]]
    ELSE Append(players,
                [id |-> row.player_id,
                 data |-> [has_name   |-> TRUE,
                           country    |-> row.ioc,
                           hand       |-> row.hand,
                           height     |-> row.height,
                           birth_year |-> row.birth_year,
                           titles     |-> <<>>]])

RECURSIVE CsvFold(_, _, _)
CsvFold(players, rows, n) ==
    IF n = 0 THEN players ELSE CsvStep(CsvFold(players, rows, n - 1), rows[n])

\* The first iteration when the file has no 'dob' column: the empty record is
\* stored for a new player, then row['dob'] raises and ends the loop.
CsvFirstRowFails(players, rows) ==
    IF rows = <<>> \/ HasPlayer(players, rows[1].player_id) THEN players
    ELSE Append(players, [id |-> rows[1].player_id, data |-> EmptyRecord])

load_player_data(json, csv) ==
    LET players == FromJson(json)
    IN  IF ~csv.readable THEN players
        ELSE IF ~csv.has_dob THEN CsvFirstRowFails(players, csv.rows)
        ELSE CsvFold(players, csv.rows, Len(csv.rows))

\* grand_slam_finals.json is [readable, finals]; a final is
\* [tournament, winner, loser]: winner and loser are the two names, each
\* written as the id of the player who bears it, NA for an empty name.
load_grand_slam_data(file) == IF file.readable THEN file.finals ELSE <<>>

\* --------------------------------------------- head-to-head extractor
\* H2HStep recording the edge at the winner only.
H2HStepOneWay(st, match) ==
    IF match.winner_id # NA /\ match.loser_id # NA
    THEN [st EXCEPT !.h2h = Put(st.h2h, match.winner_id,
                                Get(st.h2h, match.winner_id, {}) \cup {match.loser_id})]
    ELSE st

\* H2HStep testing the winner id only.
H2HStepWinnerOnly(st, match) ==
    LET winner_id == match.winner_id
        loser_id  == match.loser_id
    IN  IF winner_id # NA
        THEN LET h1 == Put(st.h2h, winner_id, Get(st.h2h, winner_id, {}) \cup {loser_id})
                 h2 == Put(h1, loser_id, Get(h1, loser_id, {}) \cup {winner_id})
                 match_info == [opponent_id |-> loser_id,
                                tournament  |-> match.tourney_name,
                                year        |-> match.year,
                                result      |-> "W"]
                 d1 == Put(st.details, winner_id,
                           Append(Get(st.details, winner_id, <<>>), match_info))
                 match_info_loser == [match_info EXCEPT !.opponent_id = winner_id,
                                                        !.result = "L"]
                 d2 == Put(d1, loser_id,
                           Append(Get(d1, loser_id, <<>>), match_info_loser))
             IN  [h2h |-> h2, details |-> d2]
        ELSE st

\* H2HStep storing the match details at the winner only.
H2HStepWinnerDetail(st, match) ==
    LET winner_id == match.winner_id
        loser_id  == match.loser_id
    IN  IF winner_id # NA /\ loser_id # NA
        THEN LET h1 == Put(st.h2h, winner_id, Get(st.h2h, winner_id, {}) \cup {loser_id})
                 h2 == Put(h1, loser_id, Get(h1, loser_id, {}) \cup {winner_id})
                 match_info == [opponent_id |-> loser_id,
                                tournament  |-> match.tourney_name,
                                year        |-> match.year,
                                result      |-> "W"]
                 d1 == Put(st.details, winner_id,
                           Append(Get(st.details, winner_id, <<>>), match_info))
             IN  [h2h |-> h2, details |-> d1]
        ELSE st

\* One iteration of the loop over matches_df.iterrows(): st is the pair of
\* accumulators [h2h, details].
H2HStep(st, match) ==
    LET winner_id == match.winner_id
        loser_id  == match.loser_id
    IN  IF winner_id # NA /\ loser_id # NA
        THEN LET h1 == Put(st.h2h, winner_id, Get(st.h2h, winner_id, {}) \cup {loser_id})
                 h2 == Put(h1, loser_id, Get(h1, loser_id, {}) \cup {winner_id})
                 match_info == [opponent_id |-> loser_id,
                                tournament  |-> match.tourney_name,
                                year        |-> match.year,
                                result      |-> "W"]
                 d1 == Put(st.details, winner_id,
                           Append(Get(st.details, winner_id, <<>>), match_info))
                 match_info_loser == [match_info EXCEPT !.opponent_id = winner_id,
                                                        !.result = "L"]
                 d2 == Put(d1, loser_id,
                           Append(Get(d1, loser_id, <<>>), match_info_loser))
             IN  [h2h |-> h2, details |-> d2]
        ELSE st

RECURSIVE H2HFold(_, _)
H2HFold(matches, n) ==
    IF n = 0 THEN [h2h |-> EmptyDict, details |-> EmptyDict]
    ELSE H2HStep(H2HFold(matches, n - 1), matches[n])

extract_head_to_head_connections(matches) == H2HFold(matches, Len(matches))

\* ------------------------------------------- attribute-group extractor
IsValidPlayer(e) == e.data.has_name

\* The group key of a player under each grouping, <<>> when the player is left
\* out of the grouping (data.get(...) is falsy).
CountryKey(data) == IF data.country # "" THEN <<data.country>> ELSE <<>>
HandKey(data) == IF data.hand # "" THEN <<data.hand>> ELSE <<>>
\* HeightKey rounding to the nearest multiple of 5.
HeightKeyNearest(data) ==
    IF data.height # <<>> /\ data.height[1] # 0
    THEN <<((data.height[1] + 2) \div 5) * 5>> ELSE <<>>

HeightKey(data) ==
    IF data.height # <<>> /\ data.height[1] # 0
    THEN <<(data.height[1] \div 5) * 5>> ELSE <<>>
YearKey(data) ==
    IF data.birth_year # <<>> /\ data.birth_year[1] # 0
    THEN <<data.birth_year[1]>> ELSE <<>>

\* The ids of a sequence of [id, data] entries, in order.
Ids(entries) == [i \in 1..Len(entries) |-> entries[i].id]

\* The group key of a player under the grouping that yields the given kind.
GroupKey(kind, data) ==
    CASE kind = "same_country"    -> CountryKey(data)
      [] kind = "same_hand"       -> HandKey(data)
      [] kind = "similar_height"  -> HeightKey(data)
      [] kind = "same_birth_year" -> YearKey(data)

\* groups[k]: the ids of the valid players whose key is k, in iteration order.
Group(valid, kind, k) == Ids(SelectSeq(valid, LAMBDA e : GroupKey(kind, e.data) = k))

\* Others keeping the player in the player's own list.
OthersWithSelf(valid, kind, e) ==
    LET k == GroupKey(kind, e.data)
        players == Group(valid, kind, k)
    IN  IF k # <<>> /\ Len(players) > 1 THEN players ELSE <<>>

\* others = [p for p in players if p != player], for the group of entry e when
\* that group has more than one member; <<>> when no list is assigned.
Others(valid, kind, e) ==
    LET k == GroupKey(kind, e.data)
        players == Group(valid, kind, k)
    IN  IF k # <<>> /\ Len(players) > 1
        THEN SelectSeq(players, LAMBDA p : p # e.id)
        ELSE <<>>

\* Grouped assigning a list to the member of a group of one too.
GroupedAlone(valid, kind, e) ==
    /\ GroupKey(kind, e.data) # <<>>
    /\ Len(Group(valid, kind, GroupKey(kind, e.data))) > 0

\* Whether the loops assign entry e a list under the kind.
Grouped(valid, kind, e) ==
    /\ GroupKey(kind, e.data) # <<>>
    /\ Len(Group(valid, kind, GroupKey(kind, e.data))) > 1

extract_attribute_connections(players) ==
    LET valid == SelectSeq(players, IsValidPlayer)
        keyed == {i \in 1..Len(valid) :
                    \/ Grouped(valid, "same_country", valid[i])
                    \/ Grouped(valid, "same_hand", valid[i])
                    \/ Grouped(valid, "similar_height", valid[i])
                    \/ Grouped(valid, "same_birth_year", valid[i])}
        entry(p) == valid[CHOOSE i \in keyed : valid[i].id = p]
    IN  [p \in {valid[i].id : i \in keyed} |->
            [same_country    |-> Others(valid, "same_country", entry(p)),
             same_hand       |-> Others(valid, "same_hand", entry(p)),
             similar_height  |-> Others(valid, "similar_height", entry(p)),
             same_birth_year |-> Others(valid, "same_birth_year", entry(p))]]

\* -------------------------------------- tournament co-participation
\* tournament_key = f"{tournament}_{year}"
TournamentKey(match) == match.tourney_name \o "_" \o Str(match.year)

HasTournamentKey(match) == match.tourney_name # "" /\ match.year # 0

\* TournamentPlayers collecting the winners only.
TournamentPlayersWinners(matches) ==
    LET keyedRows == {i \in 1..Len(matches) : HasTournamentKey(matches[i])}
        keys == {TournamentKey(matches[i]) : i \in keyedRows}
    IN  [k \in keys |->
            UNION {{matches[i].winner_id} \ {NA} :
                   i \in {j \in keyedRows : TournamentKey(matches[j]) = k}}]

\* tournament_players: key -> the ids seen as winner or loser under the key.
TournamentPlayers(matches) ==
    LET keyedRows == {i \in 1..Len(matches) : HasTournamentKey(matches[i])}
        keys == {TournamentKey(matches[i]) : i \in keyedRows}
    IN  [k \in keys |->
            UNION {{matches[i].winner_id, matches[i].loser_id} \ {NA} :
                   i \in {j \in keyedRows : TournamentKey(matches[j]) = k}}]

\* extract_tournament_connections recording each pair at its first player only.
extract_tournament_connections_one_way(matches, finals) ==
    LET tp == TournamentPlayers(matches)
        pairs == UNION {{pr \in tp[k] \X tp[k] : pr[1] < pr[2]} : k \in DOMAIN tp}
    IN  [p \in {pr[1] : pr \in pairs} |->
            [same_tournament |-> {pr[2] : pr \in {q \in pairs : q[1] = p}}]]

\* gs_finalists: tournament -> the names seen as winner or loser of a final
\* that has both names.
GsFinalists(finals) ==
    LET named == {i \in 1..Len(finals) :
                     /\ finals[i].tournament # ""
                     /\ finals[i].winner # NA
                     /\ finals[i].loser # NA}
    IN  [t \in {finals[i].tournament : i \in named} |->
            UNION {{finals[i].winner, finals[i].loser} :
                   i \in {j \in named : finals[j].tournament = t}}]

\* extract_tournament_connections with the finalists of one tournament
\* recorded as same_tournament neighbours.
extract_tournament_connections_with_finals(matches, finals) ==
    LET tp == TournamentPlayers(matches)
        gs_finalists == GsFinalists(finals)
        pairs == UNION {{pr \in tp[k] \X tp[k] : pr[1] # pr[2]} : k \in DOMAIN tp}
                 \cup UNION {{pr \in gs_finalists[t] \X gs_finalists[t] : pr[1] # pr[2]} :
                             t \in DOMAIN gs_finalists}
    IN  [p \in {pr[1] : pr \in pairs} |->
            [same_tournament |-> {pr[2] : pr \in {q \in pairs : q[1] = p}}]]

\* The loop over gs_finalists.items() has the body `pass`: gs_finalists is
\* built and then dropped.
extract_tournament_connections(matches, finals) ==
    LET tp == TournamentPlayers(matches)
        gs_finalists == GsFinalists(finals)
        \* players_list[i], players_list[j] for i < j, recorded in both directions
        pairs == UNION {{pr \in tp[k] \X tp[k] : pr[1] # pr[2]} : k \in DOMAIN tp}
    IN  [p \in {pr[1] : pr \in pairs} |->
            [same_tournament |-> {pr[2] : pr \in {q \in pairs : q[1] = p}}]]

\* ------------------------------------------------------ graph merger
KINDS == {"direct_opponents", "same_country", "same_hand", "similar_height",
          "same_birth_year", "same_tournament"}

NoAttributes == [same_country |-> <<>>, same_hand |-> <<>>,
                 similar_height |-> <<>>, same_birth_year |-> <<>>]

\* TotalConnections adding the six list lengths.
TotalConnectionsSum(c) ==
    Cardinality(c.direct_opponents) + Len(c.same_country) + Len(c.same_hand)
        + Len(c.similar_height) + Len(c.same_birth_year) + Cardinality(c.same_tournament)

\* len(all_connections), all_connections the set updated with the six lists.
TotalConnections(c) ==
    Cardinality(c.direct_opponents \cup Range(c.same_country) \cup Range(c.same_hand)
                    \cup Range(c.similar_height) \cup Range(c.same_birth_year)
                    \cup c.same_tournament)

\* all_player_ids updated with the keys of the head-to-head output only.
all_player_ids_h2h(h2h, attribute, tournament) == DOMAIN h2h

\* all_player_ids after the three update(...keys()) calls.
all_player_ids(h2h, attribute, tournament) ==
    (DOMAIN h2h) \cup (DOMAIN attribute) \cup (DOMAIN tournament)

build_connection_graph(h2h, attribute, tournament) ==
    LET connections(player_id) ==
            [direct_opponents |-> Get(h2h, player_id, {}),
             same_country     |-> Get(attribute, player_id, NoAttributes).same_country,
             same_hand        |-> Get(attribute, player_id, NoAttributes).same_hand,
             similar_height   |-> Get(attribute, player_id, NoAttributes).similar_height,
             same_birth_year  |-> Get(attribute, player_id, NoAttributes).same_birth_year,
             same_tournament  |->
                 Get(tournament, player_id, [same_tournament |-> {}]).same_tournament]
    IN  [player_id \in all_player_ids(h2h, attribute, tournament) |->
            [direct_opponents  |-> connections(player_id).direct_opponents,
             same_country      |-> connections(player_id).same_country,
             same_hand         |-> connections(player_id).same_hand,
             similar_height    |-> connections(player_id).similar_height,
             same_birth_year   |-> connections(player_id).same_birth_year,
             same_tournament   |-> connections(player_id).same_tournament,
             total_connections |-> TotalConnections(connections(player_id))]]

\* The neighbours of a connection record under a kind, as a set.
Neighbors(c, K) ==
    CASE K = "direct_opponents" -> c.direct_opponents
      [] K = "same_country"     -> Range(c.same_country)
      [] K = "same_hand"        -> Range(c.same_hand)
      [] K = "similar_height"   -> Range(c.similar_height)
      [] K = "same_birth_year"  -> Range(c.same_birth_year)
      [] K = "same_tournament"  -> c.same_tournament

\* The number of entries of a connection record's list under a kind.
ListSize(c, K) ==
    CASE K = "direct_opponents" -> Cardinality(c.direct_opponents)
      [] K = "same_country"     -> Len(c.same_country)
      [] K = "same_hand"        -> Len(c.same_hand)
      [] K = "similar_height"   -> Len(c.similar_height)
      [] K = "same_birth_year"  -> Len(c.same_birth_year)
      [] K = "same_tournament"  -> Cardinality(c.same_tournament)

\* ------------------------------------------ top-connectivity selector
\* IsPopular asking for more than min_connections opponents.
IsPopularStrict(e, h2h, min_connections) ==
    /\ e.data.has_name
    /\ e.id \in DOMAIN h2h
    /\ Cardinality(h2h[e.id]) > min_connections

\* IsPopular asking for a country too.
IsPopularWithCountry(e, h2h, min_connections) ==
    /\ e.data.has_name
    /\ e.data.country # ""
    /\ e.id \in DOMAIN h2h
    /\ Cardinality(h2h[e.id]) >= min_connections

\* The condition under which the loop appends a player_info.
IsPopular(e, h2h, min_connections) ==
    /\ e.data.has_name
    /\ e.id \in DOMAIN h2h
    /\ Cardinality(h2h[e.id]) >= min_connections

\* PlayerInfo reporting only whether the player has an opponent.
PlayerInfoCapped(e, h2h) ==
    [id          |-> e.id,
     country     |-> e.data.country,
     hand        |-> e.data.hand,
     height      |-> e.data.height,
     birth_year  |-> e.data.birth_year,
     titles      |-> IF e.data.titles = <<>> THEN <<0>> ELSE e.data.titles,
     connections |-> Min(Cardinality(h2h[e.id]), 1)]

\* PlayerInfo not counting the player as an opponent.
PlayerInfoNoSelf(e, h2h) ==
    [id          |-> e.id,
     country     |-> e.data.country,
     hand        |-> e.data.hand,
     height      |-> e.data.height,
     birth_year  |-> e.data.birth_year,
     titles      |-> IF e.data.titles = <<>> THEN <<0>> ELSE e.data.titles,
     connections |-> Cardinality(h2h[e.id] \ {e.id})]

PlayerInfo(e, h2h) ==
    [id          |-> e.id,
     country     |-> e.data.country,
     hand        |-> e.data.hand,
     height      |-> e.data.height,
     birth_year  |-> e.data.birth_year,
     titles      |-> IF e.data.titles = <<>> THEN <<0>> ELSE e.data.titles,
     connections |-> Cardinality(h2h[e.id])]

\* SortInsert for an ascending sort: x goes after every element whose key is
\* less than or equal to its own.
SortInsertAscending(sorted, x) ==
    LET before == {i \in 1..Len(sorted) : sorted[i].connections <= x.connections}
        n == IF before = {} THEN 0
             ELSE CHOOSE i \in before : \A j \in before : j <= i
    IN  SubSeq(sorted, 1, n) \o <<x>> \o SubSeq(sorted, n + 1, Len(sorted))

\* SortInsert for an ascending sort that is then reversed: x goes before the
\* elements whose key equals its own.
SortInsertReversed(sorted, x) ==
    LET before == {i \in 1..Len(sorted) : sorted[i].connections > x.connections}
        n == IF before = {} THEN 0
             ELSE CHOOSE i \in before : \A j \in before : j <= i
    IN  SubSeq(sorted, 1, n) \o <<x>> \o SubSeq(sorted, n + 1, Len(sorted))

\* One insertion of list.sort(key=connections, reverse=True): x goes after every
\* element whose key is greater than or equal to its own (the sort is stable).
SortInsert(sorted, x) ==
    LET before == {i \in 1..Len(sorted) : sorted[i].connections >= x.connections}
        n == IF before = {} THEN 0
             ELSE CHOOSE i \in before : \A j \in before : j <= i
    IN  SubSeq(sorted, 1, n) \o <<x>> \o SubSeq(sorted, n + 1, Len(sorted))

RECURSIVE SortByConnections(_, _)
SortByConnections(list, n) ==
    IF n = 0 THEN <<>> ELSE SortInsert(SortByConnections(list, n - 1), list[n])

get_popular_players(players, h2h, min_connections) ==
    LET eligible == SelectSeq(players, LAMBDA e : IsPopular(e, h2h, min_connections))
        popular_players == [i \in 1..Len(eligible) |-> PlayerInfo(eligible[i], h2h)]
    IN  SortByConnections(popular_players, Len(popular_players))

\* ---------------------------------------------------------- persisting
\* Capped keeping the entries appended last.
CappedLast(list, match_limit) ==
    SubSeq(list, Len(list) - Min(Len(list), match_limit) + 1, Len(list))

\* match_details[player_id][:match_limit]
Capped(list, match_limit) == SubSeq(list, 1, Min(Len(list), match_limit))

\* popular_players[:max_candidates]
TopPlayers(popular, max_candidates) ==
    SubSeq(popular, 1, Min(Len(popular), max_candidates))

\* KeptKeys keeping every key of the dict.
KeptKeysAll(top_player_ids, keys) == keys

\* The keys of a dict that the loops over top_player_ids copy.
KeptKeys(top_player_ids, keys) == top_player_ids \cap keys

\* The document main builds from popular_players[:max_candidates], with the
\* match details cut to match_limit entries.
BuildDocument(popular, graph, players, details, max_candidates, match_limit) ==
    LET top_players == TopPlayers(popular, max_candidates)
        top_player_ids == {top_players[i].id : i \in 1..Len(top_players)}
        data(player_id) ==
            players[CHOOSE i \in 1..Len(players) : players[i].id = player_id].data
        in_players == {players[i].id : i \in 1..Len(players)}
        key(S) == {Str(player_id) : player_id \in S}
        id(k, S) == CHOOSE player_id \in S : Str(player_id) = k
        with_graph == KeptKeys(top_player_ids, DOMAIN graph)
        with_data == KeptKeys(top_player_ids, in_players)
        with_matches == KeptKeys(top_player_ids, DOMAIN details)
    IN  [players        |-> top_players,
         connections    |-> [k \in key(with_graph) |-> graph[id(k, with_graph)]],
         player_details |-> [k \in key(with_data) |-> data(id(k, with_data))],
         match_details  |->
             [k \in key(with_matches) |-> Capped(details[id(k, with_matches)], match_limit)],
         total_players  |-> Len(top_players)]

\* ------------------------------------------------------------ inputs
TourneyNames == {"", "Wimbledon"}
Years == {2010}

MatchRows(names, years) ==
    [winner_id : PlayerIds \cup {NA}, loser_id : PlayerIds \cup {NA},
     tourney_name : names, year : years]

\* Rows with and without a tournament name. A row with a missing id and no
\* tournament name changes nothing in any extractor: the row with both ids
\* missing stands for all of them.
GraphRows ==
    {r \in MatchRows(TourneyNames, Years) :
        r.tourney_name = "" /\ (r.winner_id = NA \/ r.loser_id = NA)
            => r.winner_id = NA /\ r.loser_id = NA}

\* Rows of one tournament.
SelectRows == MatchRows({"Wimbledon"}, Years)

\* Rows of two tournaments and rows without a tournament name.
TournamentRows == MatchRows({"", "Wimbledon", "US Open"}, Years)

\* The match streams of at most MaxMatches rows.
MatchStreams(rows) == UNION {[1..n -> rows] : n \in 0..MaxMatches}

\* A record of tennis_players_data.json / atp_players.csv after loading.
Named ==
    [has_name |-> TRUE, country |-> "FRA", hand |-> "R",
     height |-> <<185>>, birth_year |-> <<1986>>, titles |-> <<>>]
Nameless == [Named EXCEPT !.has_name = FALSE]
Other ==
    [has_name |-> TRUE, country |-> "ESP", hand |-> "R",
     height |-> <<189>>, birth_year |-> <<>>, titles |-> <<3>>]
Bare ==
    [has_name |-> TRUE, country |-> "", hand |-> "",
     height |-> <<>>, birth_year |-> <<1986>>, titles |-> <<>>]

\* The iteration orders of the player ids: every id once.
Orders ==
    {o \in [1..Cardinality(PlayerIds) -> PlayerIds] :
        \A i, j \in DOMAIN o : o[i] = o[j] => i = j}

\* Every id once, in ascending order.
IdOrder == {o \in Orders : \A i, j \in DOMAIN o : i < j => o[i] < o[j]}

\* Stands for "the id has no record in players_data".
Absent == [absent |-> TRUE]

\* players_data with the ids in one of `orders` and, for each id (an index of
\* `choice`), one of the records `choice` allows it, or no record where it
\* allows Absent.
PlayerTables(orders, choice) ==
    LET present(o, a) == SelectSeq(o, LAMBDA p : a[p] # Absent)
    IN  {[i \in 1..Len(present(o, a)) |->
            [id |-> present(o, a)[i], data |-> a[present(o, a)[i]]]] :
         o \in orders,
         a \in {f \in [DOMAIN choice -> UNION Range(choice)] :
                  \A p \in DOMAIN choice : f[p] \in choice[p]}}

\* Tables with every grouping's cases: groups of one, two and three members, a
\* player without a name, a player without a record, players without an
\* attribute.
GraphTables ==
    PlayerTables(IdOrder, <<{Named, Nameless, Absent}, {Named}, {Other, Bare}>>)

\* Tables with every iteration order, player 1 with a name, without a name
\* and without a record.
SelectTables == PlayerTables(Orders, <<{Named, Nameless, Absent}, {Named}, {Named}>>)

\* The worked example's records: A (1) beats B (2) at Wimbledon 2010, B beats A
\* at Wimbledon 2011, A beats C (3) at the US Open 2012.
ExampleStream ==
    <<[winner_id |-> 1, loser_id |-> 2, tourney_name |-> "Wimbledon", year |-> 2010],
      [winner_id |-> 2, loser_id |-> 1, tourney_name |-> "Wimbledon", year |-> 2011],
      [winner_id |-> 1, loser_id |-> 3, tourney_name |-> "US Open", year |-> 2012]>>

\* The streams of at most ExampleLen of those records, in any order.
ExampleStreams == UNION {[1..n -> Range(ExampleStream)] : n \in 0..ExampleLen}

\* The value of row['ioc'] and row['hand'] for an empty cell of atp_players.csv:
\* read_csv fills every empty cell of a text column with the one float nan
\* object, which is truthy (data.get('country') passes) and, being one object,
\* is one key of a dict.
NaN == "NaN"

\* Records that miss one attribute each.
NoCountry == [Named EXCEPT !.country = ""]
NoHand == [Named EXCEPT !.hand = ""]
NoHeight == [Named EXCEPT !.height = <<>>]
NoBirthYear == [Named EXCEPT !.birth_year = <<>>]

\* Records of players that are in atp_players.csv only, with an empty ioc or
\* hand cell.
CsvNoCountry == [Named EXCEPT !.country = NaN]
CsvNoHand == [Named EXCEPT !.hand = NaN]

\* A record one unit below a bin boundary.
Shorter == [Named EXCEPT !.height = <<184>>]

\* A record that shares no attribute with the others.
Lone ==
    [has_name |-> TRUE, country |-> "SUI", hand |-> "L",
     height |-> <<170>>, birth_year |-> <<1981>>, titles |-> <<>>]

\* Tables of up to four players X, Y, Z, W (1 to 4), in ascending order of id:
\* X with every attribute, without one of them, or without a name; W, who
\* plays no match, in another country or without a record.
ExampleTables ==
    PlayerTables({<<1, 2, 3, 4>>},
                 <<{Named, Nameless, NoCountry, NoHand, NoHeight, NoBirthYear,
                    CsvNoCountry, CsvNoHand},
                   {Named, Lone, CsvNoCountry}, {Named, Other, Bare, Shorter},
                   {Other, Lone, Absent}>>)

\* The one table in which the three players all have the record Named.
NamedTables == PlayerTables(IdOrder, <<{Named}, {Named}, {Named}>>)

\* The name of a match file has no run of four digits, or has the year 1989
\* or 2010.
FileYears == {<<>>, <<1989>>, <<2010>>}

\* The rows of a match file: 1 beats 2 at Wimbledon, 3 beats 2 at the US Open,
\* or a row without a loser id.
FileRows ==
    {<<[winner_id |-> 1, loser_id |-> 2, tourney_name |-> "Wimbledon"]>>,
     <<[winner_id |-> 3, loser_id |-> 2, tourney_name |-> "US Open"]>>,
     <<[winner_id |-> 1, loser_id |-> NA, tourney_name |-> "Wimbledon"]>>}

MatchFiles == [year : FileYears, readable : BOOLEAN, rows : FileRows]

\* sorted(glob.glob("tennis_atp-master/atp_matches_*.csv")), at most MaxFiles
\* files.
MatchFileLists == UNION {[1..n -> MatchFiles] : n \in 0..MaxFiles}

\* The lists of files that all hold the row of 1 beating 2.
SameRowFileLists ==
    {files \in MatchFileLists :
        \A i \in 1..Len(files) : files[i].rows[1].loser_id = 2 /\ files[i].rows[1].winner_id = 1}

\* Records of tennis_players_data.json: two with every key, and the second
\* without one of the keys 'name', 'country', 'hand'.
JsonOne ==
    [id |-> 1, complete |-> TRUE, country |-> "FRA", hand |-> "R",
     height |-> <<185>>, titles |-> <<7>>]
JsonTwo ==
    [id |-> 2, complete |-> TRUE, country |-> "FRA", hand |-> "R",
     height |-> <<>>, titles |-> <<>>]
JsonTwoIncomplete == [JsonTwo EXCEPT !.complete = FALSE]

\* The file as it should be, with an incomplete second record, and unreadable.
JsonFiles ==
    {[readable |-> TRUE, records |-> <<JsonOne, JsonTwo>>],
     [readable |-> TRUE, records |-> <<JsonOne, JsonTwoIncomplete>>],
     [readable |-> FALSE, records |-> <<JsonOne, JsonTwo>>]}

\* Rows of atp_players.csv: player 2, who is in the JSON file too, and
\* player 3, who is not.
CsvTwo ==
    [player_id |-> 2, birth_year |-> <<1986>>, ioc |-> "FRA", hand |-> "R",
     height |-> <<185>>]
CsvThree ==
    [player_id |-> 3, birth_year |-> <<>>, ioc |-> "ESP", hand |-> "L",
     height |-> <<>>]

\* The file as it should be, without the column 'dob', and unreadable.
CsvFiles ==
    {[readable |-> TRUE, has_dob |-> TRUE, rows |-> <<CsvTwo, CsvThree>>],
     [readable |-> TRUE, has_dob |-> FALSE, rows |-> <<CsvThree, CsvTwo>>],
     [readable |-> FALSE, has_dob |-> TRUE, rows |-> <<CsvTwo, CsvThree>>]}

\* Player 1 beat player 3 in a Wimbledon final; a second final has no
\* tournament name.
FinalRecords ==
    <<[tournament |-> "Wimbledon", winner |-> 1, loser |-> 3],
      [tournament |-> "", winner |-> 1, loser |-> 2]>>

\* The file as it should be, and unreadable.
FinalsFiles ==
    {[readable |-> TRUE, finals |-> FinalRecords],
     [readable |-> FALSE, finals |-> FinalRecords]}

\* -------------------------------------------------------------- state
VARIABLES
    pc,                     \* the stage main is about to run
    sources,                \* the files read so far, in the runs that read files
    matches_df,
    players_data,
    gs_finals,
    h2h_connections,
    match_details,
    attribute_connections,
    tournament_connections,
    connection_graph,
    min_connections,        \* the threshold passed to get_popular_players
    popular_players,
    max_candidates,         \* the length popular_players is cut to
    match_limit,            \* the length a match_details list is cut to
    output_file             \* <<>>, or <<document>> once written

vars == <<pc, sources, matches_df, players_data, gs_finals, h2h_connections, match_details,
          attribute_connections, tournament_connections, connection_graph,
          min_connections, popular_players, max_candidates, match_limit,
          output_file>>

inputs == <<sources, matches_df, players_data, gs_finals>>
extracted == <<h2h_connections, match_details, attribute_connections,
               tournament_connections>>
selected == <<min_connections, popular_players, max_candidates, match_limit>>

\* No file read yet.
NoSources == [match_files |-> <<>>, player_files |-> <<>>, finals_file |-> <<>>]

Init ==
    /\ pc = "load_matches"
    /\ sources = NoSources
    /\ matches_df = <<>>
    /\ players_data = <<>>
    /\ gs_finals = <<>>
    /\ h2h_connections = EmptyDict
    /\ match_details = EmptyDict
    /\ attribute_connections = EmptyDict
    /\ tournament_connections = EmptyDict
    /\ connection_graph = EmptyDict
    /\ min_connections = 0
    /\ popular_players = <<>>
    /\ max_candidates = 0
    /\ match_limit = 0
    /\ output_file = <<>>

LoadAllMatchData(streams) ==
    /\ pc = "load_matches"
    /\ \E m \in streams : matches_df' = m
    /\ pc' = "load_players"
    /\ UNCHANGED <<sources, players_data, gs_finals, extracted, connection_graph,
                   selected, output_file>>

LoadPlayerData(tables) ==
    /\ pc = "load_players"
    /\ \E t \in tables : players_data' = t
    /\ pc' = "load_finals"
    /\ UNCHANGED <<sources, matches_df, gs_finals, extracted, connection_graph,
                   selected, output_file>>

LoadGrandSlamData(finals) ==
    /\ pc = "load_finals"
    /\ \E f \in finals : gs_finals' = f
    /\ pc' = "extract_h2h"
    /\ UNCHANGED <<sources, matches_df, players_data, extracted, connection_graph,
                   selected, output_file>>

\* load_all_match_data reading the files of one of `lists`. A file name
\* without a year raises AttributeError in the loop, outside the try, and
\* nothing in main catches it.
ReadMatchFiles(lists) ==
    /\ pc = "load_matches"
    /\ \E files \in lists :
          /\ sources' = [sources EXCEPT !.match_files = files]
          /\ IF NoYearInName(files)
             THEN pc' = "crashed" /\ UNCHANGED matches_df
             ELSE pc' = "load_players" /\ matches_df' = load_all_match_data(files)
    /\ UNCHANGED <<players_data, gs_finals, extracted, connection_graph, selected,
                   output_file>>

\* load_player_data reading one of `jsons` and one of `csvs`.
ReadPlayerFiles(jsons, csvs) ==
    /\ pc = "load_players"
    /\ \E json \in jsons, csv \in csvs :
          /\ sources' = [sources EXCEPT !.player_files = <<json, csv>>]
          /\ players_data' = load_player_data(json, csv)
    /\ pc' = "load_finals"
    /\ UNCHANGED <<matches_df, gs_finals, extracted, connection_graph, selected,
                   output_file>>

\* load_grand_slam_data reading one of `files`.
ReadGrandSlamFile(files) ==
    /\ pc = "load_finals"
    /\ \E file \in files :
          /\ sources' = [sources EXCEPT !.finals_file = <<file>>]
          /\ gs_finals' = load_grand_slam_data(file)
    /\ pc' = "extract_h2h"
    /\ UNCHANGED <<matches_df, players_data, extracted, connection_graph, selected,
                   output_file>>

\* if matches_df.empty: return
Abort ==
    /\ pc = "extract_h2h"
    /\ matches_df = <<>>
    /\ pc' = "aborted"
    /\ UNCHANGED <<inputs, extracted, connection_graph, selected, output_file>>

ExtractHeadToHead ==
    /\ pc = "extract_h2h"
    /\ matches_df # <<>>
    /\ LET r == extract_head_to_head_connections(matches_df)
       IN  /\ h2h_connections' = r.h2h
           /\ match_details' = r.details
    /\ pc' = "extract_attributes"
    /\ UNCHANGED <<inputs, attribute_connections, tournament_connections,
                   connection_graph, selected, output_file>>

ExtractAttributes ==
    /\ pc = "extract_attributes"
    /\ attribute_connections' = extract_attribute_connections(players_data)
    /\ pc' = "extract_tournaments"
    /\ UNCHANGED <<inputs, h2h_connections, match_details, tournament_connections,
                   connection_graph, selected, output_file>>

ExtractTournaments ==
    /\ pc = "extract_tournaments"
    /\ tournament_connections' = extract_tournament_connections(matches_df, gs_finals)
    /\ pc' = "merge"
    /\ UNCHANGED <<inputs, h2h_connections, match_details, attribute_connections,
                   connection_graph, selected, output_file>>

\* BuildConnectionGraph handing over to the serializer, the selector left out.
BuildConnectionGraphThenSerialize ==
    /\ pc = "merge"
    /\ connection_graph' = build_connection_graph(h2h_connections,
                                attribute_connections, tournament_connections)
    /\ pc' = "serialize"
    /\ UNCHANGED <<inputs, extracted, selected, output_file>>

BuildConnectionGraph ==
    /\ pc = "merge"
    /\ connection_graph' = build_connection_graph(h2h_connections,
                                attribute_connections, tournament_connections)
    /\ pc' = "select"
    /\ UNCHANGED <<inputs, extracted, selected, output_file>>

GetPopularPlayers ==
    /\ pc = "select"
    /\ \E m \in 1..MaxThreshold :
          /\ min_connections' = m
          /\ popular_players' = get_popular_players(players_data, h2h_connections, m)
    /\ pc' = "serialize"
    /\ UNCHANGED <<inputs, extracted, connection_graph, max_candidates, match_limit,
                   output_file>>

\* main from line 363 on, with the match details cut to one of `limits`.
Serialize(limits) ==
    /\ pc = "serialize"
    /\ \E n \in 1..MaxTop, limit \in limits :
          /\ max_candidates' = n
          /\ match_limit' = limit
          /\ output_file' = <<BuildDocument(popular_players, connection_graph,
                                            players_data, match_details, n, limit)>>
    /\ pc' = "done"
    /\ UNCHANGED <<inputs, extracted, connection_graph, min_connections,
                   popular_players>>

FinalStreams == {<<>>}

Compute(limits) ==
    \/ Abort
    \/ ExtractHeadToHead
    \/ ExtractAttributes
    \/ ExtractTournaments
    \/ BuildConnectionGraph
    \/ GetPopularPlayers
    \/ Serialize(limits)

\* Runs over match streams with and without a tournament name and over
\* GraphTables, the match details cut to MatchCap entries.
Next ==
    \/ LoadAllMatchData(MatchStreams(GraphRows))
    \/ LoadPlayerData(GraphTables)
    \/ LoadGrandSlamData(FinalStreams)
    \/ Compute({MatchCap})

Spec == Init /\ [][Next]_vars

\* Runs over match streams of one tournament and over SelectTables, the match
\* details cut to MatchCap entries.
NextSelect ==
    \/ LoadAllMatchData(MatchStreams(SelectRows))
    \/ LoadPlayerData(SelectTables)
    \/ LoadGrandSlamData(FinalStreams)
    \/ Compute({MatchCap})

SpecSelect == Init /\ [][NextSelect]_vars

\* Runs over the streams of the worked example's records and over
\* ExampleTables, the match details cut to any length up to MatchCap.
NextExample ==
    \/ LoadAllMatchData(ExampleStreams)
    \/ LoadPlayerData(ExampleTables)
    \/ LoadGrandSlamData(FinalStreams)
    \/ Compute(1..MatchCap)

SpecExample == Init /\ [][NextExample]_vars

\* Runs over match streams of two tournaments, with and without a tournament
\* name, and over the table of three named players.
NextTournament ==
    \/ LoadAllMatchData(MatchStreams(TournamentRows))
    \/ LoadPlayerData(NamedTables)
    \/ LoadGrandSlamData(FinalStreams)
    \/ Compute({MatchCap})

SpecTournament == Init /\ [][NextTournament]_vars

\* Runs that read the files: lists of at most MaxFiles match files, the two
\* player files and the finals file, each as it should be or failing.
NextLoad ==
    \/ ReadMatchFiles(MatchFileLists)
    \/ ReadPlayerFiles(JsonFiles, CsvFiles)
    \/ ReadGrandSlamFile(FinalsFiles)
    \/ Compute({MatchCap})

SpecLoad == Init /\ [][NextLoad]_vars

\* Runs that read the files, the match files all holding the same row.
NextRun ==
    \/ ReadMatchFiles(SameRowFileLists)
    \/ ReadPlayerFiles(JsonFiles, CsvFiles)
    \/ ReadGrandSlamFile(FinalsFiles)
    \/ Compute({MatchCap})

\* main is one sequential thread that never stops between two statements:
\* whenever a step is possible, a step is taken.
SpecRun == Init /\ [][NextRun]_vars /\ WF_vars(NextRun)

\* ---------------------------------------------------------- properties
\* build_connection_graph has just returned: connection_graph holds its result,
\* which no later stage changes.
Merged == pc = "select"
\* get_popular_players has just returned: popular_players holds its result,
\* which no later stage changes.
Selected == pc = "serialize"
Written == output_file # <<>>
Document == output_file[1]

\* The ids of the persisted candidate list.
Retained == {Document.players[i].id : i \in 1..Len(Document.players)}

\* C1: in the merged graph, for every relation kind K and every two vertices u
\* and v, v is in u's K list if and only if u is in v's K list.
C1_EdgesSymmetric ==
    Merged => \A K \in KINDS : \A u, v \in DOMAIN connection_graph :
        v \in Neighbors(connection_graph[u], K) <=> u \in Neighbors(connection_graph[v], K)

\* A merged graph with an edge of every kind.
C1_Witness ==
    /\ Merged
    /\ \A K \in KINDS : \E u, v \in DOMAIN connection_graph :
          u # v /\ v \in Neighbors(connection_graph[u], K)

\* C2: whatever the match and player records are, no vertex of the merged graph
\* has its own id in any of its six neighbour lists.
C2_NoSelfLoops ==
    Merged => \A K \in KINDS : \A v \in DOMAIN connection_graph :
        v \notin Neighbors(connection_graph[v], K)

\* C3: total_connections(v) is the number of distinct neighbours of v over the
\* six kinds: at least the longest single list and at most the sum of the six
\* list lengths.
Sum6(c) ==
    ListSize(c, "direct_opponents") + ListSize(c, "same_country")
        + ListSize(c, "same_hand") + ListSize(c, "similar_height")
        + ListSize(c, "same_birth_year") + ListSize(c, "same_tournament")

C3_TotalIsUnion ==
    Merged => \A v \in DOMAIN connection_graph :
        LET c == connection_graph[v]
        IN  /\ c.total_connections = Cardinality(UNION {Neighbors(c, K) : K \in KINDS})
            /\ \A K \in KINDS : c.total_connections >= ListSize(c, K)
            /\ c.total_connections <= Sum6(c)

\* A vertex with a neighbour under two kinds and more neighbours than any one
\* kind gives it.
C3_Witness ==
    /\ Merged
    /\ \E v \in DOMAIN connection_graph :
          LET c == connection_graph[v]
          IN  /\ c.total_connections < Sum6(c)
              /\ \A K \in KINDS : c.total_connections > ListSize(c, K)

\* C4: in the persisted connections section every neighbour id of every
\* retained vertex, under every kind, is itself a retained vertex.
C4_NeighborsRetained ==
    Written =>
        \A k \in DOMAIN Document.connections : \A K \in KINDS :
            Neighbors(Document.connections[k], K) \subseteq Retained

\* C5: the key sets of connections, player_details and match_details are each
\* exactly the ids, as strings, of the persisted candidate list.
C5_SectionKeys ==
    Written =>
        LET keys == {Str(player_id) : player_id \in Retained}
        IN  /\ DOMAIN Document.connections = keys
            /\ DOMAIN Document.player_details = keys
            /\ DOMAIN Document.match_details = keys

\* A document of two candidates, cut from a longer list, while a player who is
\* no candidate has matches.
C5_Witness ==
    /\ Written
    /\ Cardinality(Retained) = 2
    /\ Len(popular_players) > 2
    /\ Cardinality(DOMAIN Document.connections) = 2

\* The distinct opponents of player p over the rows with both ids present.
Opponents(matches, p) ==
    {q \in PlayerIds : \E i \in 1..Len(matches) :
        /\ matches[i].winner_id # NA /\ matches[i].loser_id # NA
        /\ \/ matches[i].winner_id = p /\ matches[i].loser_id = q
           \/ matches[i].loser_id = p /\ matches[i].winner_id = q}

OpponentCount(p) == Cardinality(Opponents(matches_df, p))

\* The ids with a player record that has a name.
NamedIds == {players_data[i].id : i \in {j \in 1..Len(players_data) : players_data[j].data.has_name}}

\* The position of player p's record in the iteration over players_data.
Position(p) == CHOOSE i \in 1..Len(players_data) : players_data[i].id = p

Eligible == {p \in NamedIds : OpponentCount(p) >= min_connections}

\* C6: get_popular_players returns a vertex, once, if and only if it has a
\* player record with a name and at least min_connections distinct direct
\* opponents.
C6_EligibleExactly ==
    Selected =>
        /\ Range(Ids(popular_players)) = Eligible
        /\ Cardinality(Eligible) = Len(popular_players)

\* A selection that returns a player, leaves out a named player who has
\* opponents, but too few, and leaves out a player who has opponents and no name.
C6_Witness ==
    /\ Selected
    /\ popular_players # <<>>
    /\ \E p \in NamedIds : OpponentCount(p) > 0 /\ OpponentCount(p) < min_connections
    /\ \E p \in PlayerIds \ NamedIds : OpponentCount(p) > 0

\* C7: the persisted candidate list has at most max_candidates entries, and no
\* eligible vertex left out of it has more direct opponents than a vertex in it.
C7_TopSelection ==
    Written =>
        /\ Len(Document.players) <= max_candidates
        /\ \A e \in Eligible \ Retained : \A r \in Retained :
              OpponentCount(e) <= OpponentCount(r)

\* A document that leaves an eligible vertex out, and one with fewer opponents
\* than a vertex it keeps.
C7_Witness ==
    /\ Written
    /\ Len(Document.players) = max_candidates
    /\ \E e \in Eligible \ Retained : \E r \in Retained :
          OpponentCount(e) < OpponentCount(r)

\* C8: the list get_popular_players returns is ordered by direct-opponent count,
\* non-increasing, and candidates with equal counts are in the order in which
\* players_data iterates over their records.
C8_StableDescending ==
    Selected =>
        \A i, j \in 1..Len(popular_players) :
            i < j =>
                /\ OpponentCount(popular_players[i].id) >= OpponentCount(popular_players[j].id)
                /\ OpponentCount(popular_players[i].id) = OpponentCount(popular_players[j].id)
                      => Position(popular_players[i].id) < Position(popular_players[j].id)

\* A list of three candidates, the first with more opponents than the two
\* others, which tie and are listed with the greater id first.
C8_Witness ==
    /\ Selected
    /\ Len(popular_players) = 3
    /\ popular_players[1].connections > popular_players[2].connections
    /\ popular_players[2].connections = popular_players[3].connections
    /\ popular_players[2].id > popular_players[3].id

\* The inputs with the fields under variation set to fixed values: every
\* player gets the country, hand, height and birth year of Named, every match
\* the same tournament and year. Two runs differ only in those fields exactly
\* when their inputs have the same fixed form.
FixedPlayers(players) ==
    [i \in 1..Len(players) |->
        [id |-> players[i].id,
         data |-> [Named EXCEPT !.has_name = players[i].data.has_name]]]

FixedMatches(matches) ==
    [i \in 1..Len(matches) |->
        [matches[i] EXCEPT !.tourney_name = "Wimbledon", !.year = 2010]]

\* The merged graph of a run over the given inputs.
GraphOf(matches, players, finals) ==
    build_connection_graph(extract_head_to_head_connections(matches).h2h,
                           extract_attribute_connections(players),
                           extract_tournament_connections(matches, finals))

\* C9: two runs whose inputs differ only in the players' country, hand, height
\* and birth year and in the matches' tournament fields select the same
\* sequence of candidate ids (of which main keeps a prefix).
\* Stated as: every run selects what the run over the fixed form of its inputs
\* selects, so that any two runs with the same fixed form select the same.
C9_SelectionIgnoresAttributes ==
    Selected =>
        Ids(get_popular_players(FixedPlayers(players_data),
                extract_head_to_head_connections(FixedMatches(matches_df)).h2h,
                min_connections))
            = Ids(popular_players)

\* A run with two candidates whose same_country, same_tournament and
\* total_connections all differ from those of the run over the fixed form of
\* its inputs.
C9_Witness ==
    /\ Selected
    /\ Len(popular_players) = 2
    /\ \A v \in Range(Ids(popular_players)) :
          LET graph == GraphOf(FixedMatches(matches_df), FixedPlayers(players_data),
                               gs_finals)
          IN  /\ graph[v].total_connections # connection_graph[v].total_connections
              /\ graph[v].same_tournament # connection_graph[v].same_tournament
              /\ graph[v].same_country # connection_graph[v].same_country

\* C10: for a retained vertex with more than match_limit match details, the
\* persisted list is the match_limit entries processed last (stated for streams
\* whose rows each have two different players).
C10_MostRecentKept ==
    Written /\ (\A i \in 1..Len(matches_df) : matches_df[i].winner_id # matches_df[i].loser_id) =>
        \A v \in Retained :
            LET all == match_details[v]
            IN  Len(all) > match_limit =>
                    Document.match_details[Str(v)]
                        = SubSeq(all, Len(all) - match_limit + 1, Len(all))

\* A match row contributes up to two match-detail entries, the winner's and
\* then the loser's: slot 2i - 1 is the winner's entry of row i, slot 2i the
\* loser's.
SlotRow(matches, s) == matches[(s + 1) \div 2]

SlotIsWinner(s) == s % 2 = 1

\* Whether slot s is an entry of player v's list.
SlotOf(matches, v, s) ==
    LET m == SlotRow(matches, s)
    IN  /\ m.winner_id # NA /\ m.loser_id # NA
        /\ v = IF SlotIsWinner(s) THEN m.winner_id ELSE m.loser_id

SlotDetail(matches, s) ==
    LET m == SlotRow(matches, s)
    IN  [opponent_id |-> IF SlotIsWinner(s) THEN m.loser_id ELSE m.winner_id,
         tournament  |-> m.tourney_name,
         year        |-> m.year,
         result      |-> IF SlotIsWinner(s) THEN "W" ELSE "L"]

\* The match details of player v read off the input stream, oldest first.
StreamDetails(matches, v) ==
    LET slots == SelectSeq([s \in 1..(2 * Len(matches)) |-> s],
                           LAMBDA s : SlotOf(matches, v, s))
    IN  [j \in 1..Len(slots) |-> SlotDetail(matches, slots[j])]

\* C11: for every retained vertex the persisted match-detail list has at most
\* match_limit entries, which are the first entries of the vertex's match
\* details in input-stream order (so their relative order is that of the match
\* records, oldest first); a vertex with at most match_limit match details has
\* its full list persisted.
C11_DetailsCappedInOrder ==
    Written =>
        \A v \in Retained :
            LET d == Document.match_details[Str(v)]
                all == StreamDetails(matches_df, v)
            IN  /\ Len(d) <= match_limit
                /\ Len(d) <= Len(all)
                /\ d = SubSeq(all, 1, Len(d))
                /\ Len(all) <= match_limit => d = all

\* A retained vertex with three match details, a win, a loss and a win, of
\* which the first two are persisted.
C11_Witness ==
    /\ Written
    /\ match_limit = 2
    /\ \E v \in Retained :
          LET d == Document.match_details[Str(v)]
          IN  /\ Len(match_details[v]) = 3
              /\ Len(d) = 2
              /\ d[1].result = "W" /\ d[2].result = "L"
              /\ match_details[v][3].result = "W"

\* C12: for every candidate of the persisted players list, the reported
\* connections count is the number of distinct opponents of the player over the
\* whole match stream, whatever max_candidates, min_connections and match_limit
\* are and whichever other players were retained.
C12_ConnectionsCountFull ==
    Written =>
        \A i \in 1..Len(Document.players) :
            Document.players[i].connections = OpponentCount(Document.players[i].id)

\* A candidate with two opponents whose persisted match details were cut to
\* one entry, while one of the opponents is not retained.
C12_Witness ==
    /\ Written
    /\ match_limit = 1
    /\ \E i \in 1..Len(Document.players) :
          LET p == Document.players[i]
          IN  /\ p.connections = 2
              /\ Len(Document.match_details[Str(p.id)]) = 1
              /\ Opponents(matches_df, p.id) \ Retained # {}
              /\ p.id \notin Opponents(matches_df, p.id)

\* extract_head_to_head_connections has just returned.
Extracted == pc = "extract_attributes"

\* pd.notna(winner_id) and pd.notna(loser_id)
BothIds(m) == m.winner_id # NA /\ m.loser_id # NA

\* The stream with the records that miss an id removed.
WithBothIds(matches) == SelectSeq(matches, BothIds)

\* C13: a match record whose winner id or loser id is missing leaves the
\* opponent map and the match-detail map as they were and the loop goes on to
\* the next record: the extractor's result is its result on the stream with
\* those records removed, and no missing id becomes a key or a neighbour.
C13_MissingIdSkipped ==
    Extracted =>
        /\ \A i \in 1..Len(matches_df) :
              ~BothIds(matches_df[i]) =>
                  H2HFold(matches_df, i) = H2HFold(matches_df, i - 1)
        /\ h2h_connections = extract_head_to_head_connections(WithBothIds(matches_df)).h2h
        /\ match_details = extract_head_to_head_connections(WithBothIds(matches_df)).details
        /\ NA \notin DOMAIN h2h_connections
        /\ NA \notin DOMAIN match_details
        /\ \A p \in DOMAIN h2h_connections : NA \notin h2h_connections[p]

\* A stream whose first record has a winner and no loser and whose second
\* record has both ids, which the extractor went on to process.
C13_Witness ==
    /\ Extracted
    /\ Len(matches_df) = 2
    /\ matches_df[1].winner_id # NA /\ matches_df[1].loser_id = NA
    /\ BothIds(matches_df[2])
    /\ matches_df[1].winner_id \notin DOMAIN h2h_connections
    /\ matches_df[2].winner_id \in DOMAIN h2h_connections

\* The match details of player v, <<>> when the player has no list.
DetailsOf(v) == Get(match_details, v, <<>>)

\* The records with both ids present that player v took part in.
RecordsOf(matches, v) ==
    {i \in 1..Len(matches) :
        BothIds(matches[i]) /\ v \in {matches[i].winner_id, matches[i].loser_id}}

\* C14: each record with both ids present appends one entry to the winner's
\* list (result W, the loser as opponent) and one to the loser's list (result
\* L, the winner as opponent), each list being in the order of the stream; so
\* the length of a vertex's list is the number of such records the vertex took
\* part in.
C14_OneEntryPerRecord ==
    Extracted =>
        \A v \in PlayerIds :
            /\ DetailsOf(v) = StreamDetails(matches_df, v)
            /\ Len(DetailsOf(v)) = Cardinality(RecordsOf(matches_df, v))

\* The direct_opponent neighbours the worked example names, A, B, C being the
\* ids 1, 2, 3.
ExampleNeighbors ==
    /\ DOMAIN h2h_connections = {1, 2, 3}
    /\ h2h_connections[1] = {2, 3}
    /\ h2h_connections[2] = {1}
    /\ h2h_connections[3] = {1}

\* C15, as stated: on the stream of the worked example the extractor yields
\* neighbours(A) = {B, C}, neighbours(B) = {A}, neighbours(C) = {A} and
\* match_details(A) has 2 entries, with results W, W, the first naming B and
\* the second C.
C15_ExampleTwoEntries ==
    Extracted /\ matches_df = ExampleStream =>
        /\ ExampleNeighbors
        /\ Len(match_details[1]) = 2
        /\ match_details[1][1].result = "W" /\ match_details[1][1].opponent_id = 2
        /\ match_details[1][2].result = "W" /\ match_details[1][2].opponent_id = 3

\* C15, amended: on the stream of the worked example the extractor yields
\* neighbours(A) = {B, C}, neighbours(B) = {A}, neighbours(C) = {A} and
\* match_details(A) has 3 entries, one per match A played, with results
\* W, L, W, naming B, B and C in the order of the stream.
C15_ExampleThreeEntries ==
    Extracted /\ matches_df = ExampleStream =>
        /\ ExampleNeighbors
        /\ match_details[1] =
              <<[opponent_id |-> 2, tournament |-> "Wimbledon", year |-> 2010,
                 result |-> "W"],
                [opponent_id |-> 2, tournament |-> "Wimbledon", year |-> 2011,
                 result |-> "L"],
                [opponent_id |-> 3, tournament |-> "US Open", year |-> 2012,
                 result |-> "W"]>>

\* The extractor has processed the stream of the worked example.
C15_Witness ==
    /\ Extracted
    /\ matches_df = ExampleStream
    /\ 1 \in DOMAIN match_details

\* extract_attribute_connections has just returned.
AttributesExtracted == pc = "extract_tournaments"

\* The player records with a name, as a set of [id, data] entries.
ValidEntries == {e \in Range(players_data) : e.data.has_name}

\* The ids of the players with a name that share player e's value of the
\* attribute behind the kind; {} when e misses the attribute.
GroupOf(kind, e) ==
    CASE kind = "same_country" ->
            {f.id : f \in {g \in ValidEntries :
                e.data.country # "" /\ g.data.country = e.data.country}}
      [] kind = "same_hand" ->
            {f.id : f \in {g \in ValidEntries :
                e.data.hand # "" /\ g.data.hand = e.data.hand}}
      [] kind = "similar_height" ->
            {f.id : f \in {g \in ValidEntries :
                /\ e.data.height # <<>> /\ g.data.height # <<>>
                /\ e.data.height[1] \div 5 = g.data.height[1] \div 5}}
      [] kind = "same_birth_year" ->
            {f.id : f \in {g \in ValidEntries :
                e.data.birth_year # <<>> /\ g.data.birth_year = e.data.birth_year}}

ATTRIBUTE_KINDS == KINDS \ {"direct_opponents", "same_tournament"}

\* The list the extractor gives player p under a kind, <<>> when p has none.
AttributeList(p, kind) ==
    IF p \notin DOMAIN attribute_connections THEN <<>>
    ELSE CASE kind = "same_country"    -> attribute_connections[p].same_country
           [] kind = "same_hand"       -> attribute_connections[p].same_hand
           [] kind = "similar_height"  -> attribute_connections[p].similar_height
           [] kind = "same_birth_year" -> attribute_connections[p].same_birth_year

\* C16: for each of the four groupings, every member of a group with more than
\* one member has, under the grouping's kind, exactly the other members of the
\* group as neighbours, each listed once.
C16_GroupsComplete ==
    AttributesExtracted =>
        \A kind \in ATTRIBUTE_KINDS : \A e \in ValidEntries :
            Cardinality(GroupOf(kind, e)) > 1 =>
                /\ Range(AttributeList(e.id, kind)) = GroupOf(kind, e) \ {e.id}
                /\ Len(AttributeList(e.id, kind)) = Cardinality(GroupOf(kind, e)) - 1

\* X, Y and Z share the country FRA and W has the country ESP: the same_country
\* neighbours of X are Y and Z; under every kind some group has two members or
\* more.
C16_Witness ==
    /\ AttributesExtracted
    /\ \E x, w \in ValidEntries :
          /\ x.data.country = "FRA" /\ w.data.country = "ESP"
          /\ GroupOf("same_country", x) = {1, 2, 3}
          /\ Range(AttributeList(x.id, "same_country")) = {1, 2, 3} \ {x.id}
    /\ \A kind \in ATTRIBUTE_KINDS : \E e \in ValidEntries :
          Cardinality(GroupOf(kind, e)) > 1

\* C17: the member of a group of one gets no neighbour under the grouping's
\* kind and is in nobody's list under that kind; a player whose four groups
\* each have one member is no key of the extractor's output.
C17_GroupOfOneNoEdges ==
    AttributesExtracted =>
        \A e \in ValidEntries :
            /\ \A kind \in ATTRIBUTE_KINDS :
                  Cardinality(GroupOf(kind, e)) = 1 =>
                      /\ AttributeList(e.id, kind) = <<>>
                      /\ \A p \in DOMAIN attribute_connections :
                            e.id \notin Range(AttributeList(p, kind))
            /\ (\A kind \in ATTRIBUTE_KINDS : Cardinality(GroupOf(kind, e)) = 1)
                  => e.id \notin DOMAIN attribute_connections

\* A player alone in each of the four groups next to players who share
\* attributes, and a player alone in the country group who has neighbours under
\* another kind.
C17_Witness ==
    /\ AttributesExtracted
    /\ attribute_connections # EmptyDict
    /\ \E e \in ValidEntries :
          \A kind \in ATTRIBUTE_KINDS : Cardinality(GroupOf(kind, e)) = 1
    /\ \E e \in ValidEntries :
          /\ Cardinality(GroupOf("same_country", e)) = 1
          /\ e.id \in DOMAIN attribute_connections

\* Whether the record has no value for the attribute behind the kind.
Missing(kind, data) ==
    CASE kind = "same_country"    -> data.country \in {"", NaN}
      [] kind = "same_hand"       -> data.hand \in {"", NaN}
      [] kind = "similar_height"  -> data.height = <<>>
      [] kind = "same_birth_year" -> data.birth_year = <<>>

\* The record with the attribute behind the kind taken from the record src.
Filled(kind, data, src) ==
    CASE kind = "same_country"    -> [data EXCEPT !.country = src.country]
      [] kind = "same_hand"       -> [data EXCEPT !.hand = src.hand]
      [] kind = "similar_height"  -> [data EXCEPT !.height = src.height]
      [] kind = "same_birth_year" -> [data EXCEPT !.birth_year = src.birth_year]

\* players_data with that attribute of player p filled in.
FilledTable(players, p, kind, src) ==
    [i \in 1..Len(players) |->
        IF players[i].id = p
        THEN [id |-> p, data |-> Filled(kind, players[i].data, src)]
        ELSE players[i]]

\* The list of player p under a kind in an extractor output.
ListIn(attribute, p, kind) ==
    IF p \notin DOMAIN attribute THEN <<>>
    ELSE CASE kind = "same_country"    -> attribute[p].same_country
           [] kind = "same_hand"       -> attribute[p].same_hand
           [] kind = "similar_height"  -> attribute[p].similar_height
           [] kind = "same_birth_year" -> attribute[p].same_birth_year

\* C18: a named player whose record misses an attribute has no neighbour and is
\* nobody's neighbour under that attribute's kind, and the player's lists under
\* the other three kinds are what they are when the attribute is present.
C18_MissingAttributeLeftOut ==
    AttributesExtracted =>
        \A e \in ValidEntries : \A kind \in ATTRIBUTE_KINDS :
            Missing(kind, e.data) =>
                /\ AttributeList(e.id, kind) = <<>>
                /\ \A p \in DOMAIN attribute_connections :
                      e.id \notin Range(AttributeList(p, kind))
                /\ \A src \in {Named, Lone} : \A K \in ATTRIBUTE_KINDS \ {kind} :
                      AttributeList(e.id, K) =
                          ListIn(extract_attribute_connections(
                                     FilledTable(players_data, e.id, kind, src)),
                                 e.id, K)

\* The ids with a match record that has both ids.
InHeadToHead == {p \in PlayerIds : RecordsOf(matches_df, p) # {}}

\* The ids that share a tournament and year with another id.
InTournament ==
    {p \in PlayerIds : \E i, j \in 1..Len(matches_df) :
        /\ HasTournamentKey(matches_df[i]) /\ HasTournamentKey(matches_df[j])
        /\ matches_df[i].tourney_name = matches_df[j].tourney_name
        /\ matches_df[i].year = matches_df[j].year
        /\ p \in {matches_df[i].winner_id, matches_df[i].loser_id}
        /\ ({matches_df[j].winner_id, matches_df[j].loser_id} \ {NA, p}) # {}}

\* The ids with a name that share an attribute value with another such id.
InAttributeGroup ==
    {e.id : e \in {f \in ValidEntries :
        \E kind \in ATTRIBUTE_KINDS : Cardinality(GroupOf(kind, f)) > 1}}

\* C19: the vertices of the merged graph are the keys of the head-to-head, the
\* attribute-group and the tournament output taken together: a player in one of
\* them has a connection record and a player in none of them has none.
C19_VertexSetIsUnion ==
    Merged =>
        /\ DOMAIN connection_graph =
              (DOMAIN h2h_connections) \cup (DOMAIN attribute_connections)
                  \cup (DOMAIN tournament_connections)
        /\ DOMAIN connection_graph = InHeadToHead \cup InAttributeGroup \cup InTournament

\* A merged graph with a vertex that only the attribute output has and a
\* vertex, without a name, that only the tournament output has.
C19_Witness ==
    /\ Merged
    /\ (DOMAIN attribute_connections)
          \ ((DOMAIN h2h_connections) \cup (DOMAIN tournament_connections)) # {}
    /\ (DOMAIN tournament_connections)
          \ ((DOMAIN h2h_connections) \cup (DOMAIN attribute_connections)) # {}

\* The ids with no player record or with a record that has no name.
NamelessIds == PlayerIds \ NamedIds

\* C20: a player id without a name is no vertex of the merged graph, no key of
\* the persisted connections section and in no vertex's neighbour list under
\* any kind (stated for streams whose rows each have two different players).
C20_NamelessExcluded ==
    Written /\ (\A i \in 1..Len(matches_df) : matches_df[i].winner_id # matches_df[i].loser_id) =>
        \A p \in NamelessIds :
            /\ p \notin DOMAIN connection_graph
            /\ Str(p) \notin DOMAIN Document.connections
            /\ \A v \in DOMAIN connection_graph : \A K \in KINDS :
                  p \notin Neighbors(connection_graph[v], K)

\* The record of player p in players_data.
RecordOf(p) == players_data[Position(p)].data

\* C23: in the persisted candidate list a player's height, birth year and
\* title count are each null (<<>>) when the player's record has no value for
\* them, and never zero.
C23_MissingNumericIsNull ==
    Written =>
        \A i \in 1..Len(Document.players) :
            LET info == Document.players[i]
                data == RecordOf(info.id)
            IN  /\ data.height = <<>> => info.height = <<>>
                /\ data.birth_year = <<>> => info.birth_year = <<>>
                /\ data.titles = <<>> => info.titles = <<>>

\* Whether two heights lie in the same bin [5k, 5k + 5).
SameBin(h1, h2) ==
    \E k \in 0..60 : /\ 5 * k <= h1 /\ h1 < 5 * k + 5
                     /\ 5 * k <= h2 /\ h2 < 5 * k + 5

\* C25: two distinct named players with non-zero heights h1 and h2 are
\* similar_height neighbours of each other if and only if h1 and h2 lie in the
\* same bin of 5 units starting at a multiple of 5.
C25_HeightBins ==
    AttributesExtracted =>
        \A e, f \in ValidEntries :
            e.id # f.id /\ e.data.height # <<>> /\ f.data.height # <<>> =>
                /\ f.id \in Range(AttributeList(e.id, "similar_height"))
                      <=> SameBin(e.data.height[1], f.data.height[1])
                /\ f.id \in Range(AttributeList(e.id, "similar_height"))
                      <=> e.id \in Range(AttributeList(f.id, "similar_height"))

\* Players of heights 184, 185 and 189: the last two are neighbours and the
\* first is the neighbour of neither.
C25_Witness ==
    /\ AttributesExtracted
    /\ \E e, f, g \in ValidEntries :
          /\ e.data.height = <<184>> /\ f.data.height = <<185>> /\ g.data.height = <<189>>
          /\ g.id \in Range(AttributeList(f.id, "similar_height"))
          /\ e.id \notin Range(AttributeList(f.id, "similar_height"))
          /\ e.id \notin Range(AttributeList(g.id, "similar_height"))

\* extract_tournament_connections has just returned.
TournamentsExtracted == pc = "merge"

\* Whether record i has a tournament name and a year and names player p as
\* winner or loser.
PlayedIn(p, i) ==
    /\ matches_df[i].tourney_name # "" /\ matches_df[i].year # 0
    /\ p \in {matches_df[i].winner_id, matches_df[i].loser_id}

\* The (tournament, year) pairs under which both u and v appear.
SharedTournaments(u, v) ==
    {<<matches_df[i].tourney_name, matches_df[i].year>> :
        i \in {k \in 1..Len(matches_df) :
                 /\ PlayedIn(u, k)
                 /\ \E j \in 1..Len(matches_df) :
                       /\ PlayedIn(v, j)
                       /\ matches_df[j].tourney_name = matches_df[k].tourney_name
                       /\ matches_df[j].year = matches_df[k].year}}

\* The same_tournament neighbours of player u in the extractor's output.
TournamentList(u) ==
    IF u \in DOMAIN tournament_connections
    THEN tournament_connections[u].same_tournament ELSE {}

DetailOpponents(v) == {match_details[v][i].opponent_id : i \in 1..Len(match_details[v])}

\* C28: after the extractor has processed the stream, the opponent map and the
\* match-detail map have the same keys, and for every key the opponents named
\* in the match details are the key's direct-opponent neighbours.
C28_DetailsMatchEdges ==
    Extracted =>
        /\ DOMAIN h2h_connections = DOMAIN match_details
        /\ \A v \in DOMAIN h2h_connections : DetailOpponents(v) = h2h_connections[v]

\* A player with two match details against two opponents, after a stream in
\* which the player won once and lost once.
C28_Witness ==
    /\ Extracted
    /\ \E v \in DOMAIN h2h_connections :
          /\ Cardinality(h2h_connections[v]) = 2
          /\ v \notin h2h_connections[v]
          /\ Len(match_details[v]) = 2
          /\ match_details[v][1].result # match_details[v][2].result

\* Whether record i has both ids, two different players, a tournament name and
\* a year.
PlayedAtTournament(i) ==
    /\ BothIds(matches_df[i])
    /\ matches_df[i].winner_id # matches_df[i].loser_id
    /\ matches_df[i].tourney_name # "" /\ matches_df[i].year # 0

\* C29: the two players of a record with both ids, winner # loser, a tournament
\* name and a year are same_tournament neighbours of each other in the merged
\* graph; when every record with both ids is such a record, each vertex's
\* direct_opponents set is a subset of its same_tournament set.
C29_OpponentsShareTournament ==
    Merged =>
        /\ \A i \in 1..Len(matches_df) :
              PlayedAtTournament(i) =>
                  /\ matches_df[i].loser_id
                        \in connection_graph[matches_df[i].winner_id].same_tournament
                  /\ matches_df[i].winner_id
                        \in connection_graph[matches_df[i].loser_id].same_tournament
        /\ (\A i \in 1..Len(matches_df) : BothIds(matches_df[i]) => PlayedAtTournament(i))
              => \A v \in DOMAIN connection_graph :
                    connection_graph[v].direct_opponents
                        \subseteq connection_graph[v].same_tournament

\* Two records at two tournaments: a player with two direct opponents, who
\* are exactly the player's same_tournament neighbours.
C29_Witness ==
    /\ Merged
    /\ Len(matches_df) = 2
    /\ \A i \in 1..2 : PlayedAtTournament(i)
    /\ matches_df[1].tourney_name # matches_df[2].tourney_name
    /\ \E v \in DOMAIN connection_graph :
          /\ Cardinality(connection_graph[v].direct_opponents) = 2
          /\ connection_graph[v].direct_opponents = connection_graph[v].same_tournament

\* C30: in the persisted document, the connections count of every candidate of
\* the players list is the length of the candidate's direct_opponents list in
\* the connections section, whatever min_connections and max_candidates are.
C30_CountIsListLength ==
    Written =>
        \A i \in 1..Len(Document.players) :
            LET info == Document.players[i]
            IN  /\ Str(info.id) \in DOMAIN Document.connections
                /\ info.connections
                      = ListSize(Document.connections[Str(info.id)], "direct_opponents")

\* A document of two candidates with different counts, cut from a longer
\* list, one of whose direct opponents is not retained.
C30_Witness ==
    /\ Written
    /\ Len(Document.players) = 2
    /\ Len(popular_players) > 2
    /\ Document.players[1].connections > Document.players[2].connections
    /\ \E i \in 1..2 :
          Document.connections[Str(Document.players[i].id)].direct_opponents
              \ Retained # {}

\* The records from which a head-to-head edge can be built: both ids present.
UsableRecords == WithBothIds(matches_df)

\* C21: the run aborts before producing output if and only if ingestion left
\* zero usable match records, that is no record from which a head-to-head edge
\* can be built: a run that aborted had none, and a run that wrote the document
\* had at least one.
C21_AbortsIffNoUsableRecord ==
    /\ pc = "aborted" => UsableRecords = <<>>
    /\ Written => UsableRecords # <<>>

\* Final-record streams to compare a run with: none, one final, both finals.
OtherFinals == {SubSeq(FinalRecords, 1, n) : n \in 0..Len(FinalRecords)}

Loads(file) == file.year # <<>> /\ file.readable
Loading(files) == SelectSeq(files, Loads)

\* A player source fails when the file cannot be read or its loop raises.
JsonFails(json) == ~json.readable \/ JsonPrefix(json.records) # json.records
CsvFails(csv) == ~csv.readable \/ ~csv.has_dob

\* The sources with every record of a failed source removed.
NoRecord(file) == [file EXCEPT !.readable = FALSE]
JsonOrEmpty(json) == IF JsonFails(json) THEN NoRecord(json) ELSE json
CsvOrEmpty(csv) == IF CsvFails(csv) THEN NoRecord(csv) ELSE csv

\* C22: a load failure of the player source or of the finals source is not
\* fatal and the failed source counts as an empty stream; a failure of one match
\* file only removes that file's records from the match stream; and with at
\* least one match record loaded the run executes every later stage and writes
\* the document.
C22_LoadFailuresNotFatal ==
    /\ pc # "crashed"
    /\ pc # "load_matches"
          => matches_df = load_all_match_data(Loading(sources.match_files))
    /\ sources.player_files # <<>>
          => players_data = load_player_data(JsonOrEmpty(sources.player_files[1]),
                                             CsvOrEmpty(sources.player_files[2]))
    /\ sources.finals_file # <<>> /\ ~sources.finals_file[1].readable
          => gs_finals = <<>>
    /\ pc = "aborted" => matches_df = <<>>

\* The stages of main in their order; the three loaders make up the load stage.
Stages ==
    <<"load_matches", "load_players", "load_finals", "extract_h2h",
      "extract_attributes", "extract_tournaments", "merge", "select",
      "serialize", "done">>

\* The ends of a run: the document written, the early return, the traceback.
Terminal == {"done", "aborted", "crashed"}

\* A step of main goes from a stage to the next one, or ends the run without
\* output where the code can: at the early return and in the match loader.
StageStep ==
    \/ \E i \in 1..(Len(Stages) - 1) : pc = Stages[i] /\ pc' = Stages[i + 1]
    \/ pc = "extract_h2h" /\ pc' = "aborted"
    \/ pc = "load_matches" /\ pc' = "crashed"

\* The document exists exactly in the runs that reached the end of main, and
\* it holds the merged graph and the candidate list of those stages.
OutputAtTheEnd ==
    /\ Written <=> pc = "done"
    /\ Written =>
          /\ connection_graph = GraphOf(matches_df, players_data, gs_finals)
          /\ popular_players
                = get_popular_players(players_data, h2h_connections, min_connections)
          /\ Document.connections
                = [k \in DOMAIN Document.connections |->
                      connection_graph[CHOOSE p \in DOMAIN connection_graph : Str(p) = k]]

\* C24: every run terminates in exactly one terminal state, either ended with
\* no output or with the output written once; the stages run strictly one
\* after another in the order load, head-to-head extraction, attribute
\* extraction, tournament extraction, merge, select, serialize; and the output
\* is written only after merge and select have completed.
C24_RunsToCompletion ==
    /\ <>(pc \in Terminal)
    /\ [][StageStep /\ pc \notin Terminal /\ (Written => output_file' = output_file)]_vars
    /\ []OutputAtTheEnd

\* A run that went through every stage and wrote the document, with a merged
\* graph and a selected candidate in it.
C24_Witness ==
    /\ pc = "done"
    /\ Written
    /\ connection_graph # EmptyDict
    /\ Len(Document.players) > 0

====
